---- MODULE Spec2Model ----
(***************************************************************************)
(* wp-landing-slimmer (src/cli.mjs): a five stage pipeline that turns a    *)
(* landing page into one self-contained document.                          *)
(*                                                                         *)
(*   SpecLoad      loadHtmlAndCss (the Aggregator) and main's catch        *)
(*   SpecPurge     buildSafelist + purgeCss (the Pruner)                   *)
(*   SpecAssemble  serializeWithStyle (the Assembler)                      *)
(*   Spec          main's control flow and visualGuard (the Visual Guard)  *)
(*                                                                         *)
(* Text is modelled structurally: a URL is a record (scheme, host, path    *)
(* segments), a CSS text is a sequence of rules, a selector token is a     *)
(* sequence of one-character strings.                                      *)
(***************************************************************************)
EXTENDS Integers, Sequences, FiniteSets, TLC

VARIABLES
    pc,             \* position of the main async function
    exitCode,       \* process exit status, NoExit while running
    inputPath,      \* args.in   (absent: NoPath)
    pageUrl,        \* args.url  (absent: NoUrl)
    baseArg,        \* args.base (absent: NoUrl)
    keepFontLinks,  \* !!args["keep-font-links"]
    doVisual,       \* !args["no-visual"]
    safelistExtra,  \* args.safelist, split on ","
    vpsArg,         \* args.viewports, split on ","
    doc,            \* the parsed input document
    linkIdx,        \* loop position of "for (const link of linked)"
    cssParts,       \* loadHtmlAndCss: cssParts
    css,            \* loadHtmlAndCss: the joined aggregate
    loadLog,        \* history: how each linked stylesheet was obtained
    markup,         \* purgeCss: html
    sheet,          \* purgeCss: css
    purged,         \* purgeCss: the returned stylesheet
    slimDoc,        \* serializeWithStyle: the document after mutation
    depsInstalled,  \* environment: puppeteer, pixelmatch and pngjs import
    browser,        \* visualGuard: the puppeteer session
    vpIdx,          \* visualGuard: loop position of "for (const vp of vps)"
    worst,          \* visualGuard: worst
    diffs,          \* history: the pixelmatch count of each compared viewport
    snaps,          \* history: the (viewport, file) pairs rendered so far
    ok,             \* main: the value visualGuard returned
    warned,         \* visualGuard printed its missing-dependency warning
    thrownAt,       \* history: the step whose rejection reached main's catch
    written         \* the output file exists

vars == <<pc, exitCode, inputPath, pageUrl, baseArg, keepFontLinks, doVisual,
          safelistExtra, vpsArg, doc, linkIdx, cssParts, css, loadLog, markup,
          sheet, purged, slimDoc, depsInstalled, browser, vpIdx, worst, diffs,
          snaps, ok, warned, thrownAt, written>>

argVars   == <<inputPath, pageUrl, baseArg, keepFontLinks, doVisual,
               safelistExtra, vpsArg>>
loadVars  == <<linkIdx, cssParts, css, loadLog>>
purgeVars == <<markup, sheet, purged>>
guardVars == <<depsInstalled, browser, vpIdx, worst, diffs, snaps, ok, warned,
               written>>

----------------------------------------------------------------------------
(* Bounds of the model *)

MaxDoc == 2          \* children of <head> in an input document
MaxBody == 1         \* elements of <body> that the pipeline looks at

NoPath == <<>>
NoExit == -1

----------------------------------------------------------------------------
(* Generic helpers *)

Last(s) == s[Len(s)]
Front(s) == SubSeq(s, 1, Len(s) - 1)
Range(s) == {s[i] : i \in 1..Len(s)}
Indices(n) == [i \in 1..n |-> i]

SeqsUpTo(S, n) == UNION {[1..k -> S] : k \in 0..n}

RECURSIVE Concat(_)
Concat(ss) == IF ss = <<>> THEN <<>> ELSE Head(ss) \o Concat(Tail(ss))

----------------------------------------------------------------------------
(* URLs and documents *)

Url(scheme, host, path) == [scheme |-> scheme, host |-> host, path |-> path]
NoUrl == Url("", "", <<>>)

\* An href attribute value, by the form the regular expressions of absUrl
\* distinguish.
Href(form, scheme, host, path) ==
    [form |-> form, scheme |-> scheme, host |-> host, path |-> path]

HNone     == Href("none", "", "", <<>>)
HData     == Href("data", "data", "", <<>>)
HAbsHttps == Href("abs", "https", "cdn.example.net", <<"x.css">>)
HFont     == Href("abs", "https", "fonts.googleapis.com", <<"css2">>)
HProtoRel == Href("protorel", "", "cdn.example.net", <<"y.css">>)
HRoot     == Href("root", "", "", <<"b.css">>)
HRel      == Href("rel", "", "", <<"css", "a.css">>)
HFile     == Href("abs", "file", "", <<"srv", "c.css">>)

Elem(tag, rel, href, media, text, name) ==
    [tag |-> tag, rel |-> rel, href |-> href, media |-> media,
     text |-> text, name |-> name]

Link(rel, href, media) == Elem("link", rel, href, media, <<>>, "")
Style(text) == Elem("style", <<>>, HNone, "", text, "")
Script == Elem("script", <<>>, HNone, "", <<>>, "")
MetaCharset == Elem("meta", <<>>, HNone, "", <<>>, "charset")
MetaViewport == Elem("meta", <<>>, HNone, "", <<>>, "viewport")
Title == Elem("title", <<>>, HNone, "", <<>>, "")
Div == Elem("div", <<>>, HNone, "", <<>>, "")

Sheet == <<"stylesheet">>

NoDoc == [head |-> <<>>, body |-> <<>>]

\* Document order: the children of head, then those of body.
All(d) == d.head \o d.body

IsStylesheetLink(e) == e.tag = "link" /\ "stylesheet" \in Range(e.rel)

Linked(d) == SelectSeq(Indices(Len(All(d))),
                       LAMBDA i : IsStylesheetLink(All(d)[i]))
Inlines(d) == SelectSeq(Indices(Len(All(d))),
                        LAMBDA i : All(d)[i].tag = "style")

----------------------------------------------------------------------------
(* Stage 1: loadHtmlAndCss *)

DefaultBase == Url("https", "example.com", <<>>)
Origin(u) == Url(u.scheme, u.host, <<>>)

baseUrl == IF baseArg # NoUrl THEN baseArg
           ELSE IF pageUrl # NoUrl THEN Origin(pageUrl) ELSE DefaultBase

Dir(p) == IF p = <<>> THEN <<>> ELSE Front(p)

absUrl(u, base) ==
    CASE u.form = "none" -> NoUrl
      [] u.form = "data" -> NoUrl
      [] u.form = "abs" /\ u.scheme \in {"http", "https"} ->
             Url(u.scheme, u.host, u.path)
      [] u.form = "protorel" -> Url(base.scheme, u.host, u.path)
      [] u.form = "root" -> Url(base.scheme, base.host, u.path)
      [] u.form = "rel" -> Url(base.scheme, base.host, Dir(base.path) \o u.path)
      [] OTHER -> Url(u.scheme, u.host, u.path)

IsHttp(url) == url.scheme \in {"http", "https"}

\* The test of line 94: which of the two loaders a stylesheet goes to.
ReadsLocally(url) == ~IsHttp(url) /\ inputPath # NoPath

\* path.resolve(path.dirname(inputPath), href)
DiskPath(href) ==
    IF href.form = "root" THEN href.path
    ELSE IF href.form = "abs" THEN Dir(inputPath) \o <<href.scheme>> \o href.path
    ELSE Dir(inputPath) \o href.path

Part(src, media, text) == [src |-> src, media |-> media, text |-> text]

\* Lines 104-109: an empty text is skipped, a media other than "all" wraps.
PushPartFirst(parts, p) == <<p>> \o parts
PushPart(parts, p) == Append(parts, p)

WithSheet(parts, i, media, text) ==
    IF text = <<>> THEN parts
    ELSE PushPart(parts, Part(i, IF media # "" /\ media # "all" THEN media ELSE "",
                              text))

\* cssParts.join("\n\n"): the rules of every part, in the order of the parts.
Join(parts) ==
    Concat([k \in 1..Len(parts) |->
              [j \in 1..Len(parts[k].text) |->
                 [sel |-> parts[k].text[j], media |-> parts[k].media,
                  src |-> parts[k].src]]])

CurLink == All(doc)[Linked(doc)[linkIdx]]
CurUrl == absUrl(CurLink.href, baseUrl)
InLinkLoop == pc = "links" /\ linkIdx <= Len(Linked(doc))

Logged(via, path, text) == [via |-> via, path |-> path, text |-> text]

\* What the file system or the network may hold for a stylesheet.
CssTexts == {<<>>, <<"r1">>, <<"r2", "r3">>}

UsageError ==
    /\ pc = "start"
    /\ inputPath = NoPath /\ pageUrl = NoUrl
    /\ pc' = "done"
    /\ exitCode' = 1
    /\ UNCHANGED <<argVars, doc, loadVars, purgeVars, slimDoc, guardVars, thrownAt>>

LoadHtmlOk ==
    /\ pc = "start"
    /\ inputPath # NoPath \/ pageUrl # NoUrl
    /\ pc' = "links"
    /\ linkIdx' = 1
    /\ cssParts' = <<>>
    /\ UNCHANGED <<exitCode, argVars, doc, css, loadLog, purgeVars, slimDoc,
                   guardVars, thrownAt>>

LoadHtmlThrows ==
    /\ pc = "start"
    /\ inputPath # NoPath \/ pageUrl # NoUrl
    /\ pc' = "throw"
    /\ thrownAt' = "loadHtml"
    /\ UNCHANGED <<exitCode, argVars, doc, loadVars, purgeVars, slimDoc, guardVars>>

LinkNoUrl ==
    /\ InLinkLoop
    /\ CurUrl = NoUrl
    /\ linkIdx' = linkIdx + 1
    /\ loadLog' = Append(loadLog, Logged("none", <<>>, <<>>))
    /\ UNCHANGED <<pc, exitCode, argVars, doc, cssParts, css, purgeVars, slimDoc,
                   guardVars, thrownAt>>

LinkReadOk ==
    /\ InLinkLoop
    /\ CurUrl # NoUrl
    /\ ReadsLocally(CurUrl)
    /\ \E t \in CssTexts :
         /\ cssParts' = WithSheet(cssParts, Linked(doc)[linkIdx], CurLink.media, t)
         /\ loadLog' = Append(loadLog, Logged("disk", DiskPath(CurLink.href), t))
    /\ linkIdx' = linkIdx + 1
    /\ UNCHANGED <<pc, exitCode, argVars, doc, css, purgeVars, slimDoc, guardVars,
                   thrownAt>>

LinkReadFails ==
    /\ InLinkLoop
    /\ CurUrl # NoUrl
    /\ ReadsLocally(CurUrl)
    /\ cssParts' = WithSheet(cssParts, Linked(doc)[linkIdx], CurLink.media, <<>>)
    /\ loadLog' = Append(loadLog, Logged("diskfail", DiskPath(CurLink.href), <<>>))
    /\ linkIdx' = linkIdx + 1
    /\ UNCHANGED <<pc, exitCode, argVars, doc, css, purgeVars, slimDoc, guardVars,
                   thrownAt>>

LinkFetchOk ==
    /\ InLinkLoop
    /\ CurUrl # NoUrl
    /\ ~ReadsLocally(CurUrl)
    /\ \E t \in CssTexts :
         /\ cssParts' = WithSheet(cssParts, Linked(doc)[linkIdx], CurLink.media, t)
         /\ loadLog' = Append(loadLog, Logged("net", CurUrl, t))
    /\ linkIdx' = linkIdx + 1
    /\ UNCHANGED <<pc, exitCode, argVars, doc, css, purgeVars, slimDoc, guardVars,
                   thrownAt>>

LinkFetchThrows ==
    /\ InLinkLoop
    /\ CurUrl # NoUrl
    /\ ~ReadsLocally(CurUrl)
    /\ loadLog' = Append(loadLog, Logged("netfail", CurUrl, <<>>))
    /\ pc' = "throw"
    /\ thrownAt' = "fetchCss"
    /\ UNCHANGED <<exitCode, argVars, doc, linkIdx, cssParts, css, purgeVars,
                   slimDoc, guardVars>>

AppendInlines ==
    /\ pc = "links"
    /\ linkIdx > Len(Linked(doc))
    /\ LET ins == Inlines(doc)
           parts == cssParts \o [k \in 1..Len(ins) |->
                                    Part(ins[k], "", All(doc)[ins[k]].text)]
       IN /\ cssParts' = parts
          /\ css' = Join(parts)
    /\ pc' = "purge"
    /\ UNCHANGED <<exitCode, argVars, doc, linkIdx, loadLog, purgeVars, slimDoc,
                   guardVars, thrownAt>>

MainCatch ==
    /\ pc = "throw"
    /\ pc' = "done"
    /\ exitCode' = 1
    /\ UNCHANGED <<argVars, doc, loadVars, purgeVars, slimDoc, guardVars, thrownAt>>

SiteUrl == Url("https", "primelab.store", <<"landing">>)
LocalFile == <<"pages", "index.html">>
Bases == {NoUrl, Url("http", "primelab.store", <<>>), Url("file", "", <<"srv", "site", "">>)}

LoadHeadElems ==
    {Link(Sheet, HRel, ""), Link(Sheet, HRel, "print"), Link(Sheet, HAbsHttps, "all"),
     Link(Sheet, HProtoRel, ""), Link(Sheet, HRoot, ""), Link(Sheet, HNone, ""),
     Link(Sheet, HData, ""), Link(Sheet, HFile, ""), Link(<<"preload">>, HRel, ""),
     Style(<<"s1">>), Style(<<>>), Script}
BodyElems == {Style(<<"s2">>), Script, Div}

IdleGuard ==
    /\ depsInstalled = FALSE /\ browser = "none" /\ vpIdx = 0 /\ worst = 0
    /\ diffs = <<>> /\ snaps = {} /\ written = FALSE
    /\ ok = "unset" /\ warned = FALSE
IdlePurge == markup = <<>> /\ sheet = <<>> /\ purged = <<>>
IdleLoad == linkIdx = 0 /\ cssParts = <<>> /\ css = <<>> /\ loadLog = <<>>

InitLoad ==
    /\ pc = "start" /\ exitCode = NoExit /\ thrownAt = "none"
    /\ inputPath \in {NoPath, LocalFile}
    /\ pageUrl \in {NoUrl, SiteUrl}
    /\ baseArg \in Bases
    /\ keepFontLinks = FALSE /\ doVisual = FALSE
    /\ safelistExtra = <<>> /\ vpsArg = <<>>
    /\ doc \in [head : SeqsUpTo(LoadHeadElems, MaxDoc),
                body : SeqsUpTo(BodyElems, MaxBody)]
    /\ IdleLoad /\ IdlePurge /\ IdleGuard
    /\ slimDoc = NoDoc

NextLoad ==
    \/ UsageError
    \/ LoadHtmlOk
    \/ LoadHtmlThrows
    \/ LinkNoUrl
    \/ LinkReadOk
    \/ LinkReadFails
    \/ LinkFetchOk
    \/ LinkFetchThrows
    \/ AppendInlines
    \/ MainCatch

SpecLoad == InitLoad /\ [][NextLoad]_vars

----------------------------------------------------------------------------
(* Claims about the Aggregator, checked under SpecLoad *)

LinkAt(k) == All(doc)[Linked(doc)[k]]
LoadFailed(k) == loadLog[k].via \in {"diskfail", "netfail"}

\* C2: a failure to load one linked stylesheet, a local read failure or a
\* network fetch failure alike, never aborts the run: the source is skipped,
\* the loop goes on and the pipeline reaches the Pruner with exit code unset.
C2_LoadFailureNeverAborts ==
    (\E k \in 1..Len(loadLog) : LoadFailed(k)) =>
        /\ pc \in {"links", "purge"}
        /\ exitCode = NoExit

\* C6: when the document was loaded from a local path and a linked
\* stylesheet's href is not an absolute http(s) URL, its text is read from the
\* local file system relative to the input document's directory, whatever the
\* base origin is (the default placeholder included).
IsAbsoluteNetworkHref(h) == h.form = "abs" /\ h.scheme \in {"http", "https"}

C6_LocalDocumentReadsLocalCss ==
    (pageUrl = NoUrl /\ inputPath # NoPath) =>
        \A k \in 1..Len(loadLog) :
            (loadLog[k].via # "none" /\ ~IsAbsoluteNetworkHref(LinkAt(k).href)) =>
                /\ loadLog[k].via \in {"disk", "diskfail"}
                /\ loadLog[k].path = Dir(inputPath) \o LinkAt(k).href.path

\* C9: the aggregate holds the text of the successfully loaded linked
\* stylesheets in the order of their links in the markup, then the inline
\* blocks in document order, every inline block after every linked
\* stylesheet; a skipped source does not disturb the order of the others.
LoadedLinks ==
    SelectSeq(Indices(Len(loadLog)), LAMBDA k : loadLog[k].text # <<>>)

ExpectedSources ==
    [k \in 1..Len(LoadedLinks) |->
        [src |-> Linked(doc)[LoadedLinks[k]], text |-> loadLog[LoadedLinks[k]].text]]
    \o (IF pc = "purge"
        THEN [k \in 1..Len(Inlines(doc)) |->
                [src |-> Inlines(doc)[k], text |-> All(doc)[Inlines(doc)[k]].text]]
        ELSE <<>>)

C9_OrderPreserved ==
    /\ [k \in 1..Len(cssParts) |-> [src |-> cssParts[k].src, text |-> cssParts[k].text]]
          = ExpectedSources
    /\ pc = "purge" =>
          /\ [i \in 1..Len(css) |-> css[i].sel]
                = Concat([k \in 1..Len(ExpectedSources) |-> ExpectedSources[k].text])
          /\ \A i, j \in 1..Len(css) :
                (i < j /\ All(doc)[css[i].src].tag = "style")
                    => All(doc)[css[j].src].tag = "style"

\* A loaded stylesheet and a non-empty inline block that precedes its link in
\* the markup but follows it in the aggregate.
C9_Witness ==
    /\ pc = "purge"
    /\ Len(LoadedLinks) >= 1
    /\ Len(css) >= 2
    /\ \E i \in Range(Inlines(doc)) : \E k \in Range(LoadedLinks) :
          /\ i < Linked(doc)[k]
          /\ All(doc)[i].text # <<>>

----------------------------------------------------------------------------
(* Stage 2: buildSafelist and purgeCss.  A token is a sequence of characters; *)
(* a stylesheet is a sequence of rules, each a class selector of one token.   *)

MaxRules == 2        \* rules of an aggregated stylesheet
MaxArgLen == 3       \* characters of the --safelist argument
MaxMarkup == 1       \* elements of the markup handed to the extractor

SAFE_PREFIXES ==
    <<<<"e", "l", "e", "m", "e", "n", "t", "o", "r">>,
      <<"e", "-">>,
      <<"w", "o", "o", "c", "o", "m", "m", "e", "r", "c", "e">>,
      <<"c", "a", "r", "t", "f", "l", "o", "w", "s">>,
      <<"w", "c", "f">>,
      <<"a", "s", "t", "-">>,
      <<"w", "p", "-">>,
      <<"s", "w", "i", "p", "e", "r">>,
      <<"s", "e", "l", "e", "c", "t", "2">>,
      <<"d", "a", "s", "h", "i", "c", "o", "n", "s">>,
      <<"u", "a", "g", "b">>,
      <<"c", "f", "p", "-">>,
      <<"w", "p", "c", "f", "7">>>>

StartsWith(t, p) == Len(p) <= Len(t) /\ SubSeq(t, 1, Len(p)) = p
EndsWithDash(t) == t # <<>> /\ Last(t) = "-"

\* s.replace(/-$/, "")
StripDash(t) == IF EndsWithDash(t) THEN Front(t) ELSE t

\* (args.safelist || "").split(",") ... .filter(Boolean)
RECURSIVE SplitComma(_, _)
SplitComma(raw, cur) ==
    IF raw = <<>> THEN <<cur>>
    ELSE IF Head(raw) = "," THEN <<cur>> \o SplitComma(Tail(raw), <<>>)
    ELSE SplitComma(Tail(raw), Append(cur, Head(raw)))

ParseSafelist(raw) == SelectSeq(SplitComma(raw, <<>>), LAMBDA e : e # <<>>)

\* extra.filter(s => s.endsWith("-"))
DashEntries(extra) == SelectSeq(extra, EndsWithDash)

buildSafelistKeepDash(extra) ==
    [standard |-> SAFE_PREFIXES \o SelectSeq(extra, LAMBDA e : ~EndsWithDash(e)),
     prefixes |-> SAFE_PREFIXES \o DashEntries(extra)]

buildSafelist(extra) ==
    [standard |-> SAFE_PREFIXES \o SelectSeq(extra, LAMBDA e : ~EndsWithDash(e)),
     prefixes |-> SAFE_PREFIXES \o
        [k \in 1..Len(DashEntries(extra)) |-> StripDash(DashEntries(extra)[k])]]

MarkupElem(tag, class, id, data) ==
    [tag |-> tag, class |-> class, id |-> id, data |-> data]

\* uniques(arr): the set of the non-empty entries
uniques(arr) == {t \in Range(arr) : t # <<>>}

\* The defaultExtractor of purgeCss: class values split on white space, id
\* values, tag names and data-* attributes, as one de-duplicated token set.
defaultExtractor(content) ==
    uniques(Concat([i \in 1..Len(content) |-> content[i].class])
            \o [i \in 1..Len(content) |-> content[i].id]
            \o [i \in 1..Len(content) |-> content[i].tag]
            \o Concat([i \in 1..Len(content) |-> content[i].data]))

\* PurgeCSS: a rule stays when its token was extracted from the content, is a
\* standard safelist entry, or matches a safelist pattern ^prefix.
Retained(t, used, safelist) ==
    \/ t \in used
    \/ t \in Range(safelist.standard)
    \/ \E k \in 1..Len(safelist.prefixes) : StartsWith(t, safelist.prefixes[k])

purge(content, raw, safelist) ==
    SelectSeq(raw, LAMBDA t : Retained(t, defaultExtractor(content), safelist))

\* return res[0]?.css || css
purgeCss(h, c, extraSafe) ==
    LET res == purge(h, c, buildSafelist(extraSafe))
    IN IF res # <<>> THEN res ELSE c

Purge ==
    /\ pc = "purge"
    /\ purged' = purgeCss(markup, sheet, safelistExtra)
    /\ pc' = "minify"
    /\ UNCHANGED <<exitCode, argVars, doc, loadVars, markup, sheet, slimDoc,
                   guardVars, thrownAt>>

SheetTokens ==
    {<<"e">>, <<"e", "e">>, <<"e", "e", "e">>, <<"e", "-">>, <<"e", "-", "e">>,
     <<"-", "e">>, <<"a">>, <<"w", "p", "-", "e">>}

MarkupElems ==
    {MarkupElem(<<"d", "i", "v">>, <<>>, <<>>, <<>>),
     MarkupElem(<<"a">>, <<<<"e", "e">>>>, <<>>, <<>>),
     MarkupElem(<<"d", "i", "v">>, <<<<>>, <<"e">>, <<"-", "e">>>>, <<"e", "e", "e">>,
                <<<<"d", "a", "t", "a", "-", "e">>>>)}

ArgChars == {"e", "-", ","}

InitPurge ==
    /\ pc = "purge" /\ exitCode = NoExit /\ thrownAt = "none"
    /\ inputPath = LocalFile /\ pageUrl = NoUrl /\ baseArg = NoUrl
    /\ keepFontLinks = FALSE /\ doVisual = FALSE /\ vpsArg = <<>>
    /\ \E raw \in SeqsUpTo(ArgChars, MaxArgLen) : safelistExtra = ParseSafelist(raw)
    /\ doc = NoDoc /\ slimDoc = NoDoc
    /\ markup \in SeqsUpTo(MarkupElems, MaxMarkup)
    /\ sheet \in SeqsUpTo(SheetTokens, MaxRules)
    /\ purged = <<>>
    /\ IdleLoad /\ IdleGuard

NextPurge == Purge

SpecPurge == InitPurge /\ [][NextPurge]_vars

----------------------------------------------------------------------------
(* Claims about the Pruner, checked under SpecPurge *)

\* The safelist as the documentation states it: the baseline prefixes, the
\* user entries ending in "-" as prefixes without that "-", the other user
\* entries as exact names.
UserExact == {e \in Range(safelistExtra) : Last(e) # "-"}
UserPrefixes == {Front(e) : e \in {x \in Range(safelistExtra) : Last(x) = "-"}}
Safelisted(t) ==
    \/ t \in UserExact
    \/ \E p \in UserPrefixes \cup Range(SAFE_PREFIXES) : StartsWith(t, p)

UsageTokenSet == defaultExtractor(markup)

\* C5: a rule that references only a class absent from the markup and absent
\* from the safelist is not in the CSS purgeCss returns, also when every rule
\* of the stylesheet is such a rule and the pruned result is empty.
C5_UnusedRuleRemoved ==
    pc = "minify" =>
        \A k \in 1..Len(sheet) :
            (sheet[k] \notin UsageTokenSet /\ ~Safelisted(sheet[k]))
                => sheet[k] \notin Range(purged)

\* C10: a rule whose sole selector token equals a safelist exact entry or
\* starts with a safelist prefix survives pruning even when the token is
\* nowhere in the markup.
C10_SafelistedRuleSurvives ==
    pc = "minify" =>
        \A k \in 1..Len(sheet) : Safelisted(sheet[k]) => sheet[k] \in Range(purged)

\* A rule kept only by a user prefix, next to a rule that was pruned.
C10_Witness ==
    /\ pc = "minify"
    /\ \E k \in 1..Len(sheet) :
          /\ sheet[k] \notin UsageTokenSet
          /\ \E p \in UserPrefixes : p # <<>> /\ StartsWith(sheet[k], p)
          /\ ~\E p \in Range(SAFE_PREFIXES) : StartsWith(sheet[k], p)
          /\ sheet[k] \in Range(purged)
    /\ \E k \in 1..Len(sheet) : sheet[k] \notin Range(purged)

----------------------------------------------------------------------------
(* Stage 4: serializeWithStyle *)

\* [href*="fonts.googleapis"]
HasFontHref(e) == e.href.host = "fonts.googleapis.com"

IsFontLink(e) == IsStylesheetLink(e) /\ HasFontHref(e)
IsOtherSheetLink(e) == IsStylesheetLink(e) /\ ~HasFontHref(e)
IsScriptOrHint(e) ==
    \/ e.tag = "script"
    \/ e.tag = "link" /\ e.rel \in {<<"preload">>, <<"prefetch">>, <<"dns-prefetch">>}


\* Lines 163-169: the elements removed from the whole document.
Removed(e) ==
    \/ ~keepFontLinks /\ IsFontLink(e)
    \/ IsOtherSheetLink(e)
    \/ IsScriptOrHint(e)

\* el.remove() on every match of the three selectors
Kept(s) == SelectSeq(s, LAMBDA e : ~Removed(e))

\* doc.querySelector('meta[charset]'), doc.querySelector('meta[name="viewport"]')
HasCharsetMeta(d) ==
    \E i \in 1..Len(All(d)) : All(d)[i].tag = "meta" /\ All(d)[i].name = "charset"
HasViewportMeta(d) ==
    \E i \in 1..Len(All(d)) : All(d)[i].tag = "meta" /\ All(d)[i].name = "viewport"

serializeWithStyle(d, finalCss) ==
    LET d1 == [head |-> Kept(d.head), body |-> Kept(d.body)]
        h2 == IF HasCharsetMeta(d1) THEN d1.head ELSE <<MetaCharset>> \o d1.head
        d2 == [d1 EXCEPT !.head = h2]
        h3 == IF HasViewportMeta(d2) THEN h2 ELSE Append(h2, MetaViewport)
    IN [d2 EXCEPT !.head = Append(h3, Style(finalCss))]

Serialize ==
    /\ pc = "serialize"
    /\ slimDoc' = serializeWithStyle(doc, css)
    /\ pc' = "visual"
    /\ UNCHANGED <<exitCode, argVars, doc, loadVars, purgeVars, guardVars, thrownAt>>

AsmHeadElems ==
    {Link(Sheet, HFont, ""), Link(Sheet, HRel, ""), Link(Sheet, HNone, ""),
     Link(<<"alternate", "stylesheet">>, HAbsHttps, "print"),
     Link(<<"preload">>, HRel, ""), Link(<<"icon">>, HRoot, ""),
     Script, Style(<<"s1">>), MetaCharset, MetaViewport, Title}

FinalCssTexts == {<<>>, <<"m1">>}

InitAssemble ==
    /\ pc = "serialize" /\ exitCode = NoExit /\ thrownAt = "none"
    /\ inputPath = LocalFile /\ pageUrl = NoUrl /\ baseArg = NoUrl
    /\ keepFontLinks \in BOOLEAN
    /\ doVisual = FALSE /\ safelistExtra = <<>> /\ vpsArg = <<>>
    /\ doc \in [head : SeqsUpTo(AsmHeadElems, MaxDoc),
                body : SeqsUpTo(BodyElems, MaxBody)]
    /\ css \in FinalCssTexts
    /\ linkIdx = 0 /\ cssParts = <<>> /\ loadLog = <<>>
    /\ slimDoc = NoDoc
    /\ IdlePurge /\ IdleGuard

NextAssemble == Serialize

SpecAssemble == InitAssemble /\ [][NextAssemble]_vars

----------------------------------------------------------------------------
(* Claims about the Assembler, checked under SpecAssemble *)

StyleBlocks(d) == SelectSeq(All(d), LAMBDA e : e.tag = "style")
FontLinks(d) == SelectSeq(All(d), IsFontLink)
OtherSheetLinks(d) == SelectSeq(All(d), IsOtherSheetLink)

\* C4: whatever number of inline style blocks the input has, the assembled
\* document has exactly one style block: the final CSS, appended to the head.
C4_ExactlyOneStyleBlock ==
    pc = "visual" =>
        /\ Len(StyleBlocks(slimDoc)) = 1
        /\ Last(slimDoc.head) = Style(css)

\* C7: with the default flags the stylesheet links of the web-font family
\* stay in the assembled document and every other stylesheet link is removed.
C7_FontLinksKeptByDefault ==
    (pc = "visual" /\ ~keepFontLinks) =>
        /\ FontLinks(slimDoc) = FontLinks(doc)
        /\ OtherSheetLinks(slimDoc) = <<>>

----------------------------------------------------------------------------
(* Stage 5 and main: the control flow of the run and visualGuard.  The      *)
(* stages 1 to 3 are one step here; they are modelled above.                *)

MaxViewports == 2    \* entries of the --viewports list

Budget == 500
DiffCounts == {0, Budget, Budget + 1}

\* viewportsCsv.split(",").map(s => s.trim()).filter(Boolean)
vps == SelectSeq(vpsArg, LAMBDA v : v # "")

Max(a, b) == IF a >= b THEN a ELSE b

\* worst = Math.max(worst, n)
NextWorstLast(w, n) == n
NextWorst(w, n) == Max(w, n)

\* The catch of the dynamic imports: "return true".
OnMissingDepsReject == "reject"
OnMissingDeps == "accept"

\* return worst <= 500
Verdict(w) == IF w <= Budget THEN "accept" ELSE "reject"

BuildSlim ==
    /\ pc = "start"
    /\ inputPath # NoPath \/ pageUrl # NoUrl
    /\ pc' = "visual"
    /\ UNCHANGED <<exitCode, argVars, doc, loadVars, purgeVars, slimDoc, guardVars,
                   thrownAt>>

BuildThrows ==
    /\ pc = "start"
    /\ inputPath # NoPath \/ pageUrl # NoUrl
    /\ pc' = "throw"
    /\ thrownAt' = "build"
    /\ UNCHANGED <<exitCode, argVars, doc, loadVars, purgeVars, slimDoc, guardVars>>

SkipVisual ==
    /\ pc = "visual"
    /\ ~doVisual
    /\ pc' = "write"
    /\ UNCHANGED <<exitCode, argVars, doc, loadVars, purgeVars, slimDoc, guardVars,
                   thrownAt>>

GuardDepsMissing ==
    /\ pc = "visual"
    /\ doVisual
    /\ ~depsInstalled
    /\ warned' = TRUE
    /\ ok' = OnMissingDeps
    /\ pc' = "decide"
    /\ UNCHANGED <<exitCode, argVars, doc, loadVars, purgeVars, slimDoc,
                   depsInstalled, browser, vpIdx, worst, diffs, snaps, written,
                   thrownAt>>

GuardImported ==
    /\ pc = "visual"
    /\ doVisual
    /\ depsInstalled
    /\ pc' = "launch"
    /\ UNCHANGED <<exitCode, argVars, doc, loadVars, purgeVars, slimDoc, guardVars,
                   thrownAt>>

Launch ==
    /\ pc = "launch"
    /\ browser' = "open"
    /\ pc' = "newPage"
    /\ UNCHANGED <<exitCode, argVars, doc, loadVars, purgeVars, slimDoc,
                   depsInstalled, vpIdx, worst, diffs, snaps, ok, warned, written,
                   thrownAt>>

LaunchThrows ==
    /\ pc = "launch"
    /\ pc' = "throw"
    /\ thrownAt' = "launch"
    /\ UNCHANGED <<exitCode, argVars, doc, loadVars, purgeVars, slimDoc, guardVars>>

NewPage ==
    /\ pc = "newPage"
    /\ pc' = "writeTmp"
    /\ UNCHANGED <<exitCode, argVars, doc, loadVars, purgeVars, slimDoc, guardVars,
                   thrownAt>>

WriteTmp ==
    /\ pc = "writeTmp"
    /\ vpIdx' = 1
    /\ worst' = 0
    /\ pc' = "snapOrig"
    /\ UNCHANGED <<exitCode, argVars, doc, loadVars, purgeVars, slimDoc,
                   depsInstalled, browser, diffs, snaps, ok, warned, written,
                   thrownAt>>

InVpLoop == vpIdx <= Len(vps)

\* snap(vp, tmp1): setViewport, goto, screenshot
SnapOrig ==
    /\ pc = "snapOrig"
    /\ InVpLoop
    /\ snaps' = snaps \cup {<<vps[vpIdx], "orig">>}
    /\ pc' = "snapSlim"
    /\ UNCHANGED <<exitCode, argVars, doc, loadVars, purgeVars, slimDoc,
                   depsInstalled, browser, vpIdx, worst, diffs, ok, warned, written,
                   thrownAt>>

\* snap(vp, tmp2)
SnapSlim ==
    /\ pc = "snapSlim"
    /\ snaps' = snaps \cup {<<vps[vpIdx], "slim">>}
    /\ pc' = "diff"
    /\ UNCHANGED <<exitCode, argVars, doc, loadVars, purgeVars, slimDoc,
                   depsInstalled, browser, vpIdx, worst, diffs, ok, warned, written,
                   thrownAt>>

\* Lines 223-230: decode both rasters, pixelmatch, keep the maximum, write the
\* diff image.
Compare ==
    /\ pc = "diff"
    /\ \E n \in DiffCounts :
         /\ worst' = NextWorst(worst, n)
         /\ diffs' = Append(diffs, n)
    /\ vpIdx' = vpIdx + 1
    /\ pc' = "snapOrig"
    /\ UNCHANGED <<exitCode, argVars, doc, loadVars, purgeVars, slimDoc,
                   depsInstalled, browser, snaps, ok, warned, written, thrownAt>>

\* Any await between puppeteer.launch and browser.close may reject: newPage,
\* the temporary files, setViewport, goto, screenshot, the raster decoding,
\* pixelmatch, the diff image.  Nothing in visualGuard catches it.
GuardStepThrows ==
    /\ \/ pc \in {"newPage", "writeTmp", "snapSlim", "diff"}
       \/ pc = "snapOrig" /\ InVpLoop
    /\ pc' = "throw"
    /\ thrownAt' = pc
    /\ UNCHANGED <<exitCode, argVars, doc, loadVars, purgeVars, slimDoc, guardVars>>

CloseAndReturn ==
    /\ pc = "snapOrig"
    /\ ~InVpLoop
    /\ browser' = "closed"
    /\ ok' = Verdict(worst)
    /\ pc' = "decide"
    /\ UNCHANGED <<exitCode, argVars, doc, loadVars, purgeVars, slimDoc,
                   depsInstalled, vpIdx, worst, diffs, snaps, warned, written,
                   thrownAt>>

VisualFailed ==
    /\ pc = "decide"
    /\ ok = "reject"
    /\ exitCode' = 2
    /\ pc' = "done"
    /\ UNCHANGED <<argVars, doc, loadVars, purgeVars, slimDoc, guardVars, thrownAt>>

ReadyToWrite == pc = "write" \/ (pc = "decide" /\ ok = "accept")

WriteOut ==
    /\ ReadyToWrite
    /\ written' = TRUE
    /\ exitCode' = 0
    /\ pc' = "done"
    /\ UNCHANGED <<argVars, doc, loadVars, purgeVars, slimDoc, depsInstalled,
                   browser, vpIdx, worst, diffs, snaps, ok, warned, thrownAt>>

WriteOutThrows ==
    /\ ReadyToWrite
    /\ pc' = "throw"
    /\ thrownAt' = "writeOut"
    /\ UNCHANGED <<exitCode, argVars, doc, loadVars, purgeVars, slimDoc, guardVars>>

ViewportNames == {"1440x900", "390x844", ""}

Init ==
    /\ pc = "start" /\ exitCode = NoExit /\ thrownAt = "none"
    /\ inputPath \in {NoPath, LocalFile}
    /\ pageUrl = NoUrl /\ baseArg = NoUrl
    /\ keepFontLinks = FALSE
    /\ doVisual \in BOOLEAN
    /\ safelistExtra = <<>>
    /\ vpsArg \in SeqsUpTo(ViewportNames, MaxViewports)
    /\ doc = NoDoc /\ slimDoc = NoDoc
    /\ depsInstalled \in BOOLEAN
    /\ browser = "none" /\ vpIdx = 0 /\ worst = 0
    /\ diffs = <<>> /\ snaps = {} /\ written = FALSE
    /\ ok = "unset" /\ warned = FALSE
    /\ IdleLoad /\ IdlePurge

Next ==
    \/ UsageError
    \/ BuildSlim
    \/ BuildThrows
    \/ SkipVisual
    \/ GuardDepsMissing
    \/ GuardImported
    \/ Launch
    \/ LaunchThrows
    \/ NewPage
    \/ WriteTmp
    \/ SnapOrig
    \/ SnapSlim
    \/ Compare
    \/ GuardStepThrows
    \/ CloseAndReturn
    \/ VisualFailed
    \/ WriteOut
    \/ WriteOutThrows
    \/ MainCatch

Spec == Init /\ [][Next]_vars

----------------------------------------------------------------------------
(* Claims about the run and the Visual Guard, checked under Spec *)

OverBudget == \E i \in 1..Len(diffs) : diffs[i] > Budget
AllCompared ==
    /\ Len(diffs) = Len(vps)
    /\ \A i \in 1..Len(vps) : {<<vps[i], "orig">>, <<vps[i], "slim">>} \subseteq snaps

\* C1: with the guard enabled, when the difference count of some viewport
\* exceeds the budget the output file is never written and the run that
\* reaches the guard's decision ends with exit code 2, after both documents
\* were rendered and compared for every configured viewport.
C1_OverBudgetExitsTwo ==
    /\ OverBudget => ~written
    /\ (OverBudget /\ pc = "done" /\ thrownAt = "none") =>
          (exitCode = 2 /\ AllCompared)
    /\ exitCode = 2 => (doVisual /\ OverBudget /\ AllCompared /\ ~written)

\* The first viewport is over budget, a later one is within it.
C1_Witness ==
    /\ exitCode = 2
    /\ Len(diffs) >= 2
    /\ diffs[1] > Budget
    /\ diffs[Len(diffs)] <= Budget

\* C3: no run ends with a browser session that was launched and never closed,
\* on the normal path and on every failing step inside the guard.
C3_SessionAlwaysClosed ==
    pc = "done" => browser # "open"

\* C8: when the guard is activated and its optional tooling is missing, the
\* guard accepts with a warning, no browser is launched, and the run writes
\* the output and ends with exit code 0; the only other ending is exit code 1
\* because writing the output file itself failed.
C8_MissingDepsAccepts ==
    /\ (doVisual /\ ~depsInstalled) => (browser = "none" /\ exitCode # 2)
    /\ (doVisual /\ ~depsInstalled /\ pc = "decide") => (warned /\ ok = "accept")
    /\ (warned /\ pc = "done") =>
          \/ exitCode = 0 /\ written
          \/ exitCode = 1 /\ thrownAt = "writeOut" /\ ~written

\* The guard degraded and the run wrote its output.
C8_Witness ==
    /\ warned
    /\ doVisual /\ ~depsInstalled
    /\ pc = "done" /\ exitCode = 0 /\ written

====
